---- MODULE Spec2Model ----
(***************************************************************************)
(* Model of the listings app of alx_travel_app: the Listing and Booking    *)
(* tables, BookingSerializer.validate, the permission classes and the      *)
(* handlers of ListingViewSet and BookingViewSet.                          *)
(*                                                                         *)
(* Dates are day numbers 1..MaxDate, prices are whole numbers, the User     *)
(* table holds three accounts and Anonymous is the unauthenticated caller. *)
(* A request payload is a function from field names to values: a field the *)
(* client did not send is not in its DOMAIN, as in the Python dict.        *)
(***************************************************************************)
EXTENDS Integers, Sequences, FiniteSets, TLC

\* ----------------------------------------------------------------- bounds
MaxDate == 4
MaxBookings == 2
MaxPrice == 2
\* a total_price a client may put in its payload
ClientPrice == 7

Dates == 1..MaxDate
Prices == 1..MaxPrice
\* the User rows: the account that hosts the listings, a guest account and
\* the account with is_staff set
Host == "host"
Guest == "guest"
Users == {Host, Guest, "staff"}
Staff == {"staff"}
\* request.user of a request without credentials
Anonymous == "anonymous"
Callers == Users \cup {Anonymous}
ListingIds == {1, 2}
GuestCounts == {1, 2}

\* Booking.STATUS_CHOICES
STATUS_CHOICES == {"pending", "confirmed", "cancelled", "completed"}

\* the names bound at module level in views.py (its import lines and classes)
ViewsGlobals ==
  {"viewsets", "permissions", "status", "filters", "action", "Response",
   "DjangoFilterBackend", "Q", "Listing", "Booking", "ListingSerializer",
   "BookingSerializer", "IsOwnerOrReadOnly", "IsBookingOwnerOrHost",
   "ListingViewSet", "BookingViewSet"}

\* permissions.SAFE_METHODS
SAFE_METHODS == {"GET", "HEAD", "OPTIONS"}

VARIABLES
  listings,   \* Listing table: id -> row
  bookings,   \* Booking table: the sequence of rows, a booking's id is its index
  last,       \* the last request served and its response
  pc,         \* concurrent create requests: position of each request
  req         \* concurrent create requests: the validated data each one holds

vars == <<listings, bookings, last, pc, req>>

\* ------------------------------------------------------------ permissions
\* IsOwnerOrReadOnly.has_object_permission
IsOwnerOrReadOnly(method, user, listing) ==
  IF method \in SAFE_METHODS THEN TRUE ELSE listing.host = user

\* IsBookingOwnerOrHost.has_object_permission
IsBookingOwnerOrHost(lst, method, user, obj) ==
  IF method \in SAFE_METHODS
    THEN obj.guest = user \/ lst[obj.listing].host = user
    ELSE obj.guest = user \/ lst[obj.listing].host = user

\* BookingViewSet.get_queryset: the ids of the rows the caller's queryset holds
get_queryset(lst, bks, user) ==
  IF user \in Staff
    THEN DOMAIN bks
    ELSE {id \in DOMAIN bks : bks[id].guest = user \/ lst[bks[id].listing].host = user}

\* GenericAPIView.get_object on BookingViewSet: 404 when the id is not in the
\* caller's queryset, 403 when the object permission refuses, else 200
get_object(lst, bks, method, user, pk) ==
  IF pk \notin get_queryset(lst, bks, user) THEN 404
  ELSE IF ~IsBookingOwnerOrHost(lst, method, user, bks[pk]) THEN 403
  ELSE 200

\* ------------------------------------------------------------- validation
Has(data, k) == k \in DOMAIN data

\* data[k] = v of the Python dict
Put(data, k, v) == [f \in DOMAIN data \cup {k} |-> IF f = k THEN v ELSE data[f]]

\* BookingSerializer.Meta.read_only_fields, of the fields the model keeps
read_only_fields == {"total_price"}

\* the fields of BookingSerializer a request has to carry (required=True):
\* listing_id, guest_id and the model fields without a default
RequiredFields == {"listing", "guest", "check_in", "check_out", "number_of_guests"}

\* the conflict scan had it looked at confirmed bookings only
conflicting_bookings_confirmed_only(bks, data, instance) ==
  {id \in DOMAIN bks :
     /\ bks[id].listing = data.listing
     /\ bks[id].check_out > data.check_in
     /\ bks[id].check_in < data.check_out
     /\ bks[id].status \in {"confirmed"}
     /\ id # instance}

\* the conflict scan had it compared the dates with __gte and __lte
conflicting_bookings_closed_interval(bks, data, instance) ==
  {id \in DOMAIN bks :
     /\ bks[id].listing = data.listing
     /\ bks[id].check_out >= data.check_in
     /\ bks[id].check_in <= data.check_out
     /\ bks[id].status \in {"pending", "confirmed"}
     /\ id # instance}

\* the queryset of validate: ids of the conflicting bookings; instance is the
\* id of the row being updated, 0 when there is none
conflicting_bookings(bks, data, instance) ==
  {id \in DOMAIN bks :
     /\ bks[id].listing = data.listing
     /\ bks[id].check_out > data.check_in
     /\ bks[id].check_in < data.check_out
     /\ bks[id].status \in {"pending", "confirmed"}
     /\ id # instance}

\* the total price had validate left out the nightly rate
total_price_without_rate(lst, data) ==
  data.check_out - data.check_in

\* the total price validate computes
total_price(lst, data) ==
  (data.check_out - data.check_in) * lst[data.listing].price_per_night

\* BookingSerializer.validate: "ok" with the data it returns, "invalid" for a
\* ValidationError, "keyerror" when data[...] names a field that is not there
validate(lst, bks, data, instance) ==
  IF ~Has(data, "check_in") \/ ~Has(data, "check_out")
    THEN [result |-> "keyerror", data |-> data]
  ELSE IF data.check_in >= data.check_out
    THEN [result |-> "invalid", data |-> data]
  ELSE IF ~Has(data, "listing") \/ ~Has(data, "number_of_guests")
    THEN [result |-> "keyerror", data |-> data]
  ELSE IF data.number_of_guests > lst[data.listing].max_guests
    THEN [result |-> "invalid", data |-> data]
  ELSE IF conflicting_bookings(bks, data, instance) # {}
    THEN [result |-> "invalid", data |-> data]
  ELSE [result |-> "ok", data |-> Put(data, "total_price", total_price(lst, data))]

\* Serializer.is_valid: the fields are read (read-only ones are dropped, a
\* missing required one or a listing_id outside the queryset of available
\* listings is an error), then validate runs
is_valid(lst, bks, initial_data, instance, partial) ==
  LET data == IF DOMAIN initial_data \cap read_only_fields = {}
                THEN initial_data
                ELSE [f \in DOMAIN initial_data \ read_only_fields |-> initial_data[f]]
  IN
  IF ~partial /\ ~(RequiredFields \subseteq DOMAIN data)
    THEN [result |-> "invalid", data |-> data]
  ELSE IF Has(data, "listing") /\ ~lst[data.listing].is_available
    THEN [result |-> "invalid", data |-> data]
  ELSE validate(lst, bks, data, instance)

\* ------------------------------------------------------- booking handlers
\* ModelSerializer.create with the guest that save() is given: the new row;
\* status falls back to the model default 'pending'
new_booking(validated_data, user) ==
  [listing |-> validated_data.listing,
   guest |-> user,
   check_in |-> validated_data.check_in,
   check_out |-> validated_data.check_out,
   number_of_guests |-> validated_data.number_of_guests,
   total_price |-> validated_data.total_price,
   status |-> IF Has(validated_data, "status") THEN validated_data.status ELSE "pending"]

\* perform_create had it scanned for conflicts again in the transaction of
\* the INSERT and dropped a request that lost the race
perform_create_rechecking(bks, validated_data, user) ==
  IF conflicting_bookings(bks, validated_data, 0) # {}
    THEN bks
    ELSE Append(bks, new_booking(validated_data, user))

\* BookingViewSet.perform_create: serializer.save(guest=request.user)
perform_create(bks, validated_data, user) ==
  Append(bks, new_booking(validated_data, user))

\* CreateModelMixin.create on BookingViewSet (POST /bookings/)
create(lst, bks, user, data) ==
  LET v == is_valid(lst, bks, data, 0, FALSE) IN
  IF v.result = "ok"
    THEN [code |-> 201, bookings |-> perform_create(bks, v.data, user)]
  ELSE IF v.result = "invalid"
    THEN [code |-> 400, bookings |-> bks]
  ELSE [code |-> 500, bookings |-> bks]

\* ModelSerializer.update: every validated field is set on the instance
updated_booking(old, validated_data) ==
  LET new(f) == IF Has(validated_data, f) THEN validated_data[f] ELSE old[f] IN
  [listing |-> new("listing"),
   guest |-> new("guest"),
   check_in |-> new("check_in"),
   check_out |-> new("check_out"),
   number_of_guests |-> new("number_of_guests"),
   total_price |-> new("total_price"),
   status |-> new("status")]

\* UpdateModelMixin.update / partial_update on BookingViewSet (PUT, PATCH)
update(lst, bks, user, pk, data, partial) ==
  LET found == get_object(lst, bks, IF partial THEN "PATCH" ELSE "PUT", user, pk)
      v == is_valid(lst, bks, data, pk, partial)
  IN
  IF found # 200 THEN [code |-> found, bookings |-> bks]
  ELSE IF v.result = "ok"
    THEN [code |-> 200,
          bookings |-> [bks EXCEPT ![pk] = updated_booking(bks[pk], v.data)]]
  ELSE IF v.result = "invalid"
    THEN [code |-> 400, bookings |-> bks]
  ELSE [code |-> 500, bookings |-> bks]

\* cancel had it not looked at the status first
cancel_without_status_check(lst, bks, user, pk) ==
  LET found == get_object(lst, bks, "POST", user, pk) IN
  IF found # 200 THEN [code |-> found, bookings |-> bks]
  ELSE IF user \notin {bks[pk].guest, lst[bks[pk].listing].host}
    THEN [code |-> 403, bookings |-> bks]
  ELSE [code |-> 200, bookings |-> [bks EXCEPT ![pk].status = "cancelled"]]

\* BookingViewSet.cancel (POST /bookings/{id}/cancel/)
cancel(lst, bks, user, pk) ==
  LET found == get_object(lst, bks, "POST", user, pk) IN
  IF found # 200 THEN [code |-> found, bookings |-> bks]
  ELSE IF bks[pk].status = "cancelled"
    THEN [code |-> 400, bookings |-> bks]
  ELSE IF user \notin {bks[pk].guest, lst[bks[pk].listing].host}
    THEN [code |-> 403, bookings |-> bks]
  ELSE [code |-> 200, bookings |-> [bks EXCEPT ![pk].status = "cancelled"]]

\* confirm had it let the guest confirm as well
confirm_without_host_check(lst, bks, user, pk) ==
  LET found == get_object(lst, bks, "POST", user, pk) IN
  IF found # 200 THEN [code |-> found, bookings |-> bks]
  ELSE IF bks[pk].status # "pending"
    THEN [code |-> 400, bookings |-> bks]
  ELSE [code |-> 200, bookings |-> [bks EXCEPT ![pk].status = "confirmed"]]

\* BookingViewSet.confirm (POST /bookings/{id}/confirm/)
confirm(lst, bks, user, pk) ==
  LET found == get_object(lst, bks, "POST", user, pk) IN
  IF found # 200 THEN [code |-> found, bookings |-> bks]
  ELSE IF bks[pk].status # "pending"
    THEN [code |-> 400, bookings |-> bks]
  ELSE IF user # lst[bks[pk].listing].host
    THEN [code |-> 403, bookings |-> bks]
  ELSE [code |-> 200, bookings |-> [bks EXCEPT ![pk].status = "confirmed"]]

\* --------------------------------------------------------- read handlers
\* BookingViewSet.list: the caller's queryset
list(lst, bks, user) ==
  [code |-> 200, body |-> get_queryset(lst, bks, user)]

\* BookingViewSet.retrieve (GET /bookings/{id}/)
retrieve(lst, bks, user, pk) ==
  LET found == get_object(lst, bks, "GET", user, pk) IN
  [code |-> found, body |-> IF found = 200 THEN {pk} ELSE {}]

\* BookingViewSet.upcoming: timezone is looked up when the handler runs
upcoming(lst, bks, user, today) ==
  IF "timezone" \notin ViewsGlobals
    THEN [code |-> 500, body |-> {}]
    ELSE [code |-> 200,
          body |-> {id \in DOMAIN bks :
                      /\ bks[id].guest = user \/ lst[bks[id].listing].host = user
                      /\ bks[id].check_out >= today
                      /\ bks[id].status \in {"confirmed", "pending"}}]

\* ListingViewSet.bookings (GET /listings/{id}/bookings/): get_object asks
\* IsOwnerOrReadOnly, then every booking of the listing is returned
listing_bookings(lst, bks, caller, pk) ==
  IF ~IsOwnerOrReadOnly("GET", caller, lst[pk])
    THEN [code |-> 403, body |-> {}]
    ELSE [code |-> 200, body |-> {id \in DOMAIN bks : bks[id].listing = pk}]

\* date.isoformat of day d of June 2024
isoformat(d) == "2024-06-0" \o ToString(d)

\* the while loop of available_dates over one booking: the dates appended,
\* and whether the lookup of datetime raised NameError
RECURSIVE while_dates(_, _)
while_dates(current_date, check_out) ==
  IF current_date < check_out
    THEN IF "datetime" \notin ViewsGlobals
           THEN [raised |-> TRUE, dates |-> <<isoformat(current_date)>>]
           ELSE LET rest == while_dates(current_date + 1, check_out) IN
                [raised |-> rest.raised,
                 dates |-> <<isoformat(current_date)>> \o rest.dates]
    ELSE [raised |-> FALSE, dates |-> <<>>]

\* the for loop of available_dates over the rows from id downwards
\* (Booking.Meta.ordering is newest first)
RECURSIVE for_bookings(_, _, _)
for_bookings(bks, pk, id) ==
  IF id = 0 THEN [raised |-> FALSE, dates |-> <<>>]
  ELSE IF bks[id].listing = pk /\ bks[id].status \in {"confirmed", "pending"}
    THEN LET one == while_dates(bks[id].check_in, bks[id].check_out) IN
         IF one.raised THEN one
         ELSE LET rest == for_bookings(bks, pk, id - 1) IN
              [raised |-> rest.raised, dates |-> one.dates \o rest.dates]
  ELSE for_bookings(bks, pk, id - 1)

\* ListingViewSet.available_dates (GET /listings/{id}/available_dates/)
available_dates(bks, pk) ==
  LET loop == for_bookings(bks, pk, Len(bks)) IN
  IF loop.raised
    THEN [code |-> 500, booked_dates |-> <<>>]
    ELSE [code |-> 200, booked_dates |-> loop.dates]

\* ------------------------------------------------------- listing handler
\* ListingViewSet.partial_update (PATCH /listings/{id}/) with a payload of
\* price_per_night and is_available
update_listing(lst, user, pk, data) ==
  IF ~IsOwnerOrReadOnly("PATCH", user, lst[pk])
    THEN [code |-> 403, listings |-> lst]
    ELSE [code |-> 200,
          listings |-> [lst EXCEPT ![pk].price_per_night = data.price_per_night,
                                   ![pk].is_available = data.is_available]]

\* ---------------------------------------------------------------- inputs
\* each payload of P, as it is and with every status a client can send
WithStatus(P) == P \cup {Put(d, "status", s) : d \in P, s \in STATUS_CHOICES}

\* each payload of P, as it is and with a total_price the client made up
WithClientPrice(P) == P \cup {Put(d, "total_price", ClientPrice) : d \in P}

\* the check_in and check_out a client sends: every stay within Dates, one
\* pair of equal dates and one pair in the wrong order
DatePairs ==
  {d \in Dates \X Dates : d[1] < d[2]} \cup {<<1, 1>>, <<2, 1>>}

\* the POST/PUT payloads of user for the listings, date pairs and guest counts
Payloads(user, pairs, counts) ==
  {[listing |-> l, guest |-> user, check_in |-> d[1], check_out |-> d[2],
    number_of_guests |-> n] : l \in ListingIds, d \in pairs, n \in counts}

\* POST/PUT payloads the host sends: any listing and dates, with any status
\* for a party the listing can hold, without one for a party it cannot
DatePayloads ==
  WithStatus(Payloads(Host, DatePairs, {1}))
  \cup Payloads(Host, DatePairs, GuestCounts \ {1})

\* PATCH payloads: the status alone, the dates alone, or the fields validate
\* reads
DatePatches ==
  [status : STATUS_CHOICES]
  \cup {[check_in |-> d[1], check_out |-> d[2]] : d \in DatePairs}
  \cup {[listing |-> l, check_in |-> d[1], check_out |-> d[2],
         number_of_guests |-> 1] : l \in ListingIds, d \in DatePairs}

\* POST/PUT payloads for one night, any listing, guest and status
AccessPayloads ==
  WithStatus(UNION {Payloads(u, {<<1, 2>>}, {1}) : u \in Users})

AccessPatches == [status : STATUS_CHOICES] \cup [guest : Users]

\* POST/PUT payloads with and without a client-made total_price
PricePayloads ==
  WithClientPrice(Payloads(Host, DatePairs, {1}))

ListingPayloads == [price_per_night : Prices, is_available : BOOLEAN]

\* ------------------------------------------------------------------ Init
Procs == {1, 2}

Init ==
  /\ listings = [l \in ListingIds |->
                   [host |-> Host, price_per_night |-> 1, max_guests |-> 1,
                    is_available |-> TRUE]]
  /\ bookings = <<>>
  /\ last = [op |-> "none", code |-> 0]
  /\ pc = [p \in Procs |-> "start"]
  /\ req = [p \in Procs |-> <<>>]

\* --------------------------------------------------------------- actions
\* one request served from start to end; users and payloads are the inputs
\* the specification draws from
CreateBooking(users, payloads) ==
  /\ Len(bookings) < MaxBookings
  /\ \E user \in users, data \in payloads :
       LET r == create(listings, bookings, user, data) IN
       /\ bookings' = r.bookings
       /\ last' = [op |-> "create", code |-> r.code]
  /\ UNCHANGED <<listings, pc, req>>

UpdateBooking(users, payloads) ==
  /\ \E user \in users, pk \in 1..MaxBookings, data \in payloads :
       LET r == update(listings, bookings, user, pk, data, FALSE) IN
       /\ bookings' = r.bookings
       /\ last' = [op |-> "update", code |-> r.code]
  /\ UNCHANGED <<listings, pc, req>>

PartialUpdateBooking(users, payloads) ==
  /\ \E user \in users, pk \in 1..MaxBookings, data \in payloads :
       LET r == update(listings, bookings, user, pk, data, TRUE) IN
       /\ bookings' = r.bookings
       /\ last' = [op |-> "partial_update", code |-> r.code]
  /\ UNCHANGED <<listings, pc, req>>

CancelBooking(users) ==
  /\ \E user \in users, pk \in 1..MaxBookings :
       LET r == cancel(listings, bookings, user, pk) IN
       /\ bookings' = r.bookings
       /\ last' = [op |-> "cancel", code |-> r.code]
  /\ UNCHANGED <<listings, pc, req>>

ConfirmBooking(users) ==
  /\ \E user \in users, pk \in 1..MaxBookings :
       LET r == confirm(listings, bookings, user, pk) IN
       /\ bookings' = r.bookings
       /\ last' = [op |-> "confirm", code |-> r.code]
  /\ UNCHANGED <<listings, pc, req>>

UpdateListing(users) ==
  /\ \E user \in users, pk \in ListingIds, data \in ListingPayloads :
       LET r == update_listing(listings, user, pk, data) IN
       /\ listings' = r.listings
       /\ last' = [op |-> "update_listing", code |-> r.code]
  /\ UNCHANGED <<bookings, pc, req>>

ListBookings ==
  /\ \E user \in Users :
       last' = [op |-> "list", code |-> list(listings, bookings, user).code]
  /\ UNCHANGED <<listings, bookings, pc, req>>

RetrieveBooking ==
  /\ \E user \in Users, pk \in 1..MaxBookings :
       last' = [op |-> "retrieve", code |-> retrieve(listings, bookings, user, pk).code]
  /\ UNCHANGED <<listings, bookings, pc, req>>

UpcomingBookings ==
  /\ \E user \in Users, today \in Dates :
       last' = [op |-> "upcoming", code |-> upcoming(listings, bookings, user, today).code]
  /\ UNCHANGED <<listings, bookings, pc, req>>

ListingBookings ==
  /\ \E caller \in Callers, pk \in ListingIds :
       last' = [op |-> "bookings", code |-> listing_bookings(listings, bookings, caller, pk).code]
  /\ UNCHANGED <<listings, bookings, pc, req>>

AvailableDates ==
  /\ \E pk \in ListingIds :
       last' = [op |-> "available_dates", code |-> available_dates(bookings, pk).code]
  /\ UNCHANGED <<listings, bookings, pc, req>>

\* two POST /bookings/ requests in flight: is_valid (the conflict scan) and
\* perform_create (the INSERT) of one request are separate steps, and the
\* steps of the other request may come between them
RaceValidate(p) ==
  /\ pc[p] = "start"
  /\ \E user \in {Host, Guest}, data \in DatePayloads :
       LET v == is_valid(listings, bookings, data, 0, FALSE) IN
       IF v.result = "ok"
         THEN /\ pc' = [pc EXCEPT ![p] = "validated"]
              /\ req' = [req EXCEPT ![p] = [user |-> user, data |-> v.data]]
              /\ UNCHANGED last
         ELSE /\ pc' = [pc EXCEPT ![p] = "done"]
              /\ last' = [op |-> "create", code |-> 400]
              /\ UNCHANGED req
  /\ UNCHANGED <<listings, bookings>>

RaceSave(p) ==
  /\ pc[p] = "validated"
  /\ bookings' = perform_create(bookings, req[p].data, req[p].user)
  /\ pc' = [pc EXCEPT ![p] = "done"]
  /\ last' = [op |-> "create", code |-> 201]
  /\ UNCHANGED <<listings, req>>

\* -------------------------------------------------------- specifications
\* the host's requests on bookings, each served atomically
Next ==
  \/ CreateBooking({Host}, DatePayloads)
  \/ UpdateBooking({Host}, DatePayloads)
  \/ PartialUpdateBooking({Host}, DatePatches)
  \/ CancelBooking({Host})
  \/ ConfirmBooking({Host})

Spec == Init /\ [][Next]_vars

\* every account's requests on one-night bookings, and the read endpoints
NextAccess ==
  \/ CreateBooking(Users, AccessPayloads)
  \/ UpdateBooking(Users, AccessPayloads)
  \/ PartialUpdateBooking(Users, AccessPatches)
  \/ CancelBooking(Users)
  \/ ConfirmBooking(Users)
  \/ ListBookings
  \/ RetrieveBooking
  \/ UpcomingBookings
  \/ ListingBookings
  \/ AvailableDates

SpecAccess == Init /\ [][NextAccess]_vars

\* bookings written while the listings' prices and availability change
NextPrice ==
  \/ CreateBooking({Host}, PricePayloads)
  \/ UpdateBooking({Host}, PricePayloads)
  \/ UpdateListing({Host, Guest})

SpecPrice == Init /\ [][NextPrice]_vars

\* two create requests whose steps interleave
NextRace == \E p \in Procs : RaceValidate(p) \/ RaceSave(p)

SpecRace == Init /\ [][NextRace]_vars

\* ---------------------------------------------------------------- claims
Active(b) == b.status \in {"pending", "confirmed"}

Overlap(b1, b2) == b1.check_out > b2.check_in /\ b1.check_in < b2.check_out

Nights(b) == b.check_out - b.check_in

HostOf(b) == listings[b.listing].host

\* C1: after any sequence of atomically served create, update (PUT/PATCH,
\* with changes of dates, listing and status), confirm and cancel requests,
\* no two distinct pending or confirmed bookings of one listing overlap.
C1_NoOverlap ==
  \A i, j \in DOMAIN bookings :
    (i # j /\ bookings[i].listing = bookings[j].listing
       /\ Active(bookings[i]) /\ Active(bookings[j]))
    => ~Overlap(bookings[i], bookings[j])

\* an update went through and left a confirmed and a pending booking back to
\* back on one listing
C1_Witness ==
  /\ last.op \in {"update", "partial_update"}
  /\ last.code = 200
  /\ \E i, j \in DOMAIN bookings :
       /\ bookings[i].listing = bookings[j].listing
       /\ bookings[i].status = "confirmed"
       /\ bookings[j].status = "pending"
       /\ bookings[i].check_out = bookings[j].check_in

\* C3 (as claimed): once a booking is cancelled or completed, no request
\* changes its status.
C3_TerminalStatus ==
  [][\A id \in DOMAIN bookings :
       bookings[id].status \in {"cancelled", "completed"}
       => bookings'[id].status = bookings[id].status]_vars

\* the condition under which the contract of 4.1 rejects a candidate booking
Rejects(data) ==
  \/ data.check_in >= data.check_out
  \/ data.number_of_guests > listings[data.listing].max_guests
  \/ \E id \in DOMAIN bookings :
       /\ bookings[id].listing = data.listing
       /\ Active(bookings[id])
       /\ bookings[id].check_out > data.check_in
       /\ bookings[id].check_in < data.check_out

\* C8: for an available listing a create request is rejected with a
\* validation error if and only if check_in >= check_out, or the guests
\* exceed max_guests, or a pending or confirmed booking of the listing
\* overlaps it; otherwise it is accepted and stored.  Back-to-back requests
\* are accepted and cancelled or completed bookings block nothing.
C8_CreateRejectedIff ==
  \A user \in Users, data \in DatePayloads :
    listings[data.listing].is_available
    => LET r == create(listings, bookings, user, data) IN
       /\ r.code = 400 <=> Rejects(data)
       /\ r.code = 201 <=> ~Rejects(data)
       /\ r.code = 400 => r.bookings = bookings
       /\ r.code = 201 => Len(r.bookings) = Len(bookings) + 1

\* a create has been served while listing 1 holds an active booking [1,2)
\* and a cancelled or completed one over [2,3): the request for [2,3) is
\* accepted and the request for [1,3) is rejected
C8_Witness ==
  /\ last.op = "create"
  /\ \E i, j \in DOMAIN bookings :
       /\ bookings[i].listing = 1 /\ Active(bookings[i])
       /\ bookings[i].check_in = 1 /\ bookings[i].check_out = 2
       /\ bookings[j].listing = 1 /\ ~Active(bookings[j])
       /\ bookings[j].check_in = 2 /\ bookings[j].check_out = 3
  /\ create(listings, bookings, Host,
            [listing |-> 1, guest |-> Host, check_in |-> 2, check_out |-> 3,
             number_of_guests |-> 1]).code = 201
  /\ create(listings, bookings, Host,
            [listing |-> 1, guest |-> Host, check_in |-> 1, check_out |-> 3,
             number_of_guests |-> 1]).code = 400

\* the elements of a sequence
Range(seq) == {seq[i] : i \in DOMAIN seq}

\* C9 (as claimed): available_dates answers with exactly the dates d with
\* check_in <= d < check_out of some pending or confirmed booking of the
\* listing.
C9_AvailableDates ==
  \A pk \in ListingIds :
    LET r == available_dates(bookings, pk) IN
    /\ r.code = 200
    /\ Range(r.booked_dates) =
         {isoformat(d) : d \in
            {e \in Dates : \E id \in DOMAIN bookings :
               /\ bookings[id].listing = pk
               /\ Active(bookings[id])
               /\ bookings[id].check_in <= e
               /\ e < bookings[id].check_out}}

\* C2 (as claimed): in every reachable state every stored booking has
\* total_price = nights * the price_per_night its listing has now.
C2_TotalPriceAlways ==
  \A id \in DOMAIN bookings :
    bookings[id].total_price
      = Nights(bookings[id]) * listings[bookings[id].listing].price_per_night

\* C2 (amended): a create or update stores total_price = nights * the
\* price_per_night the listing has when the request is served, whatever
\* total_price the client sent, and a later change of the listing leaves the
\* stored bookings as they are.
C2_TotalPriceAtWrite ==
  [][/\ \A id \in DOMAIN bookings' :
          (id \notin DOMAIN bookings \/ bookings'[id] # bookings[id])
          => bookings'[id].total_price
               = Nights(bookings'[id]) * listings[bookings'[id].listing].price_per_night
     /\ listings' # listings => bookings' = bookings]_vars

\* a booking was written at the raised price, and another one, written
\* before the price of its listing was raised, keeps the old total
C2_Witness ==
  /\ last.op \in {"create", "update"}
  /\ last.code \in {200, 201}
  /\ \E i, j \in DOMAIN bookings :
       /\ listings[bookings[i].listing].price_per_night = MaxPrice
       /\ bookings[i].total_price = Nights(bookings[i]) * MaxPrice
       /\ listings[bookings[j].listing].price_per_night = MaxPrice
       /\ bookings[j].total_price = Nights(bookings[j])

\* C4 (as claimed): a new booking starts pending, and a booking becomes
\* confirmed only by a successful confirm request on a pending booking.
C4_ConfirmedOnlyByConfirm ==
  [][/\ \A id \in DOMAIN bookings' \ DOMAIN bookings :
          bookings'[id].status = "pending"
     /\ \A id \in DOMAIN bookings :
          (bookings'[id].status = "confirmed" /\ bookings[id].status # "confirmed")
          => /\ last'.op = "confirm"
             /\ last'.code = 200
             /\ bookings[id].status = "pending"]_vars

\* C5: for a pending booking, confirm by the host of its listing succeeds
\* and sets the status to confirmed, and the same call again answers 400 and
\* leaves the bookings as they are; confirm by anyone but the host of the
\* listing never succeeds and changes nothing.
C5_ConfirmTwice ==
  \A user \in Users, id \in DOMAIN bookings :
    LET first == confirm(listings, bookings, user, id)
        second == confirm(listings, first.bookings, user, id)
    IN
    /\ user # HostOf(bookings[id])
       => first.code # 200 /\ first.bookings = bookings
    /\ (user = HostOf(bookings[id]) /\ bookings[id].status = "pending")
       => /\ first.code = 200
          /\ first.bookings = [bookings EXCEPT ![id].status = "confirmed"]
          /\ second.code = 400
          /\ second.bookings = first.bookings

\* a confirm was answered 400 on a confirmed booking, while a guest's pending
\* booking waits for the host
C5_Witness ==
  /\ last.op = "confirm"
  /\ last.code = 400
  /\ \E i, j \in DOMAIN bookings :
       /\ bookings[i].status = "confirmed"
       /\ bookings[j].status = "pending"
       /\ bookings[j].guest = Guest

\* C6: cancel of a booking that is already cancelled changes no booking, and
\* answers 400 to every caller get_object lets through to the booking.
C6_CancelCancelled ==
  \A user \in Users, id \in DOMAIN bookings :
    bookings[id].status = "cancelled"
    => LET r == cancel(listings, bookings, user, id) IN
       /\ r.bookings = bookings
       /\ get_object(listings, bookings, "POST", user, id) = 200 => r.code = 400

\* a cancel was answered 400: the guest's booking was cancelled already
C6_Witness ==
  /\ last.op = "cancel"
  /\ last.code = 400
  /\ \E id \in DOMAIN bookings :
       bookings[id].status = "cancelled" /\ bookings[id].guest = Guest

\* C7 (as claimed): no read endpoint hands a booking to a caller who is not
\* staff, not the guest of the booking and not the host of its listing.
C7_ReadableByGuestOrHost ==
  \A id \in DOMAIN bookings :
    /\ \A user \in Users \ Staff :
         (user # bookings[id].guest /\ user # HostOf(bookings[id]))
         => /\ id \notin list(listings, bookings, user).body
            /\ id \notin retrieve(listings, bookings, user, id).body
            /\ \A today \in Dates :
                 id \notin upcoming(listings, bookings, user, today).body
    /\ \A caller \in Callers \ Staff :
         (caller # bookings[id].guest /\ caller # HostOf(bookings[id]))
         => \A pk \in ListingIds :
              id \notin listing_bookings(listings, bookings, caller, pk).body

\* C10: a create request that has passed validation is stored when its write
\* step runs, whatever the other request has committed in between; two
\* requests for overlapping dates that both validate before either commits
\* are both stored.
C10_ValidatedIsStored ==
  /\ \A p \in Procs :
       (pc[p] = "done" /\ DOMAIN req[p] # {})
       => \E id \in DOMAIN bookings :
            bookings[id] = new_booking(req[p].data, req[p].user)
  /\ Len(bookings) = Cardinality({p \in Procs : pc[p] = "done" /\ DOMAIN req[p] # {}})

\* both requests are done and two overlapping pending bookings of one
\* listing are stored
C10_Witness ==
  /\ \A p \in Procs : pc[p] = "done"
  /\ \E i, j \in DOMAIN bookings :
       /\ i # j
       /\ bookings[i].listing = bookings[j].listing
       /\ bookings[i].status = "pending" /\ bookings[j].status = "pending"
       /\ Overlap(bookings[i], bookings[j])

====
